---- MODULE Spec2Model ----
(***************************************************************************)
(* Model of the meeting scheduler: find_best_times (src/scheduler.py and   *)
(* src/api/index.py hold the same function) and the /schedule request      *)
(* handler of src/api/index.py.                                            *)
(*                                                                         *)
(* Spec         one call of find_best_times on an arbitrary input list.    *)
(* SpecRequest  the handling of one POST /schedule request.                *)
(***************************************************************************)
EXTENDS Integers, Sequences, FiniteSets, TLC

VARIABLES users_data, pc, result, request, k, status, log

vars == <<users_data, pc, result, request, k, status, log>>

(***************************************************************************)
(* Bounds of the model.                                                    *)
(***************************************************************************)
\* Size of an input of find_best_times: its number of users plus the total
\* number of entries of their available_slots and preferred_slots lists.
MaxSize == 6
\* Number of messages of one /schedule request.
MaxMsgs == 3

(***************************************************************************)
(* The data model: TimeSlot and UserInput.                                 *)
(***************************************************************************)
\* TimeSlot.day: Literal["Monday", ..., "Friday"]
Days == {"Monday", "Tuesday", "Wednesday", "Thursday", "Friday"}
\* TimeSlot.hour: Field(ge=9, le=16)
MinHour == 9
MaxHour == 16

TimeSlot(d, h) == [day |-> d, hour |-> h]

\* pydantic's validation of one TimeSlot
ValidTimeSlot(s) == s.day \in Days /\ s.hour >= MinHour /\ s.hour <= MaxHour

\* The slots the inputs are drawn from: two nominal slots, one whose hour is
\* outside 9..16 and one whose day is outside Monday..Friday.  find_best_times
\* itself validates nothing, so a direct call can be handed any of them.
SlotUniverse ==
  { TimeSlot("Tuesday", 9), TimeSlot("Monday", 10),
    TimeSlot("Monday", 17), TimeSlot("Saturday", 9) }

UserInput(a, p) == [available_slots |-> a, preferred_slots |-> p]

\* The shape of an input list: for each user the lengths of available_slots
\* (a) and preferred_slots (p).  The shapes of the inputs of size at most b:
RECURSIVE Shapes(_)
Shapes(b) ==
  {<<>>} \cup
  UNION { { <<[a |-> w[1], p |-> w[2]]>> \o rest :
              rest \in Shapes(b - 1 - w[1] - w[2]) } :
          w \in { w \in (0..(b - 1)) \X (0..(b - 1)) : w[1] + w[2] <= b - 1 } }

\* The number of list entries of a shape
RECURSIVE Entries(_)
Entries(shape) ==
  IF shape = <<>> THEN 0
  ELSE Head(shape).a + Head(shape).p + Entries(Tail(shape))

\* The input list of a shape whose lists hold, one after the other, the
\* slots of `flat`
InputOf(shape, flat) ==
  [u \in 1..Len(shape) |->
     LET o == Entries(SubSeq(shape, 1, u - 1))
     IN  UserInput(SubSeq(flat, o + 1, o + shape[u].a),
                   SubSeq(flat, o + shape[u].a + 1,
                                o + shape[u].a + shape[u].p))]

(***************************************************************************)
(* find_best_times.                                                        *)
(***************************************************************************)
\* The outcome of a call: a returned list, or an exception that left it.
Return(v) == [kind |-> "return", value |-> v]
Raise(e) == [kind |-> e, value |-> <<>>]

\* Mutant of SlotSet: the loop stops one slot short of the end of the list.
SlotSet_DropLast(slots) ==
  { <<slots[n].day, slots[n].hour>> : n \in 1..(Len(slots) - 1) }

\* set(); for slot in slots: add((slot.day, slot.hour))
SlotSet(slots) == { <<slots[n].day, slots[n].hour>> : n \in 1..Len(slots) }

\* Mutant of IntersectStep: union for intersection.
IntersectStep_Union(common_slots, current_user_slots) ==
  common_slots \cup current_user_slots

\* common_slots.intersection(current_user_slots)
IntersectStep(common_slots, current_user_slots) ==
  common_slots \cap current_user_slots

\* Mutant of ShortCircuit: the early return also fires on one candidate.
ShortCircuit_AtMostOne(common_slots) == Cardinality(common_slots) <= 1

\* if len(common_slots) == 0: return []
ShortCircuit(common_slots) == Cardinality(common_slots) = 0

\* Mutant of remaining_users: users_data[1:-1], the last user left out.
remaining_users_DropLast(users) == SubSeq(users, 2, Len(users) - 1)

\* remaining_users = users_data[1:]
remaining_users(users) == SubSeq(users, 2, Len(users))

\* The loop over the remaining users, from the user at position j of `rest`:
\* the candidate set it ends with, whether it returned early, and the
\* position (in users_data) of the user at which it did.
RECURSIVE intersect_remaining(_, _, _)
intersect_remaining(rest, j, common_slots) ==
  IF j > Len(rest)
  THEN [returned |-> FALSE, common |-> common_slots, at |-> 0]
  ELSE LET c == IntersectStep(common_slots, SlotSet(rest[j].available_slots))
       IN  IF ShortCircuit(c)
           THEN [returned |-> TRUE, common |-> c, at |-> j + 1]
           ELSE intersect_remaining(rest, j + 1, c)

\* The first user's slots intersected with every remaining user's.
common_of(users) ==
  intersect_remaining(remaining_users(users), 1,
                      SlotSet(users[1].available_slots))

\* for pref in user.preferred_slots: if pref.day == day and pref.hour == hour
found_preference(user, day, hour) ==
  \E n \in 1..Len(user.preferred_slots) :
     /\ user.preferred_slots[n].day = day
     /\ user.preferred_slots[n].hour = hour

\* Mutant of current_score: no found_preference flag and no break, the score
\* raised for every matching entry of preferred_slots.
RECURSIVE current_score_NoBreak(_, _, _)
current_score_NoBreak(users, day, hour) ==
  IF users = <<>> THEN 0
  ELSE Cardinality({ n \in 1..Len(Head(users).preferred_slots) :
                       /\ Head(users).preferred_slots[n].day = day
                       /\ Head(users).preferred_slots[n].hour = hour })
       + current_score_NoBreak(Tail(users), day, hour)

\* for user in users_data: if found_preference: current_score += 1
RECURSIVE current_score(_, _, _)
current_score(users, day, hour) ==
  IF users = <<>> THEN 0
  ELSE (IF found_preference(Head(users), day, hour) THEN 1 ELSE 0)
       + current_score(Tail(users), day, hour)

\* for day, hour in common_slots: ranked_slots.append({...}); `order` is the
\* order in which the set is iterated.
ranked_slots(users, order) ==
  [n \in 1..Len(order) |->
     [day |-> order[n][1], hour |-> order[n][2],
      score |-> current_score(users, order[n][1], order[n][2])]]

day_mapping ==
  ("Monday" :> 1) @@ ("Tuesday" :> 2) @@ ("Wednesday" :> 3) @@
  ("Thursday" :> 4) @@ ("Friday" :> 5)

\* day_mapping[slot['day']] is a KeyError for a day day_mapping does not hold.
KeyRaises(slot) == slot.day \notin DOMAIN day_mapping

\* Mutant of get_sorting_priorities: the score not negated.
get_sorting_priorities_AscendingScore(slot) ==
  <<slot.score, day_mapping[slot.day], slot.hour>>

\* Mutant of get_sorting_priorities: the hour left out of the key.
get_sorting_priorities_NoHour(slot) ==
  <<slot.score * (-1), day_mapping[slot.day]>>

\* The sort key of one entry: (sort_by_score, sort_by_day, sort_by_hour)
get_sorting_priorities(slot) ==
  <<slot.score * (-1), day_mapping[slot.day], slot.hour>>

\* Python's comparison of two tuples of integers of the same length
RECURSIVE TupleLess(_, _)
TupleLess(a, b) ==
  /\ a # <<>>
  /\ \/ Head(a) < Head(b)
     \/ Head(a) = Head(b) /\ TupleLess(Tail(a), Tail(b))

\* sorted(ranked_slots, key=get_sorting_priorities): a stable sort, each
\* entry placed after the entries whose key is not greater than its own.
RECURSIVE sorted(_)
sorted(seq) ==
  IF seq = <<>> THEN <<>>
  ELSE LET init == sorted(SubSeq(seq, 1, Len(seq) - 1))
           x == seq[Len(seq)]
           p == Cardinality({ n \in 1..Len(init) :
                  ~TupleLess(get_sorting_priorities(x),
                             get_sorting_priorities(init[n])) })
       IN  SubSeq(init, 1, p) \o <<x>> \o SubSeq(init, p + 1, Len(init))

\* The scoring loop and the sort, for the candidate set iterated in `order`.
rank_and_sort(users, order) ==
  LET ranked == ranked_slots(users, order)
  IN  IF \E n \in 1..Len(ranked) : KeyRaises(ranked[n])
      THEN Raise("KeyError")
      ELSE Return(sorted(ranked))

\* The orders in which a set can be iterated
Orders(S) ==
  { f \in [1..Cardinality(S) -> S] :
      \A a, b \in 1..Cardinality(S) : a # b => f[a] # f[b] }

\* The candidate set the scoring loop iterates (empty when the call returns
\* before it).
Candidates(users) ==
  IF Len(users) = 0 THEN {}
  ELSE LET r == common_of(users)
       IN  IF r.returned THEN {} ELSE r.common

\* Mutant of find_best_times: no `if not users_data` guard, so that
\* users_data[0] is an IndexError on the empty list.
find_best_times_NoEmptyGuard(users, order) ==
  IF Len(users) = 0 THEN Raise("IndexError")
  ELSE IF common_of(users).returned THEN Return(<<>>)
  ELSE rank_and_sort(users, order)

\* find_best_times(users_data), the candidate set iterated in `order`
find_best_times(users, order) ==
  IF Len(users) = 0 THEN Return(<<>>)
  ELSE IF common_of(users).returned THEN Return(<<>>)
  ELSE rank_and_sort(users, order)

(***************************************************************************)
(* One call of find_best_times.                                            *)
(***************************************************************************)
NoRequest ==
  [kind |-> "none", truthy |-> FALSE, has_messages |-> FALSE,
   messages |-> "absent", n |-> 0]

Init ==
  /\ \E shape \in Shapes(MaxSize) :
        \E flat \in [1..Entries(shape) -> SlotUniverse] :
           users_data = InputOf(shape, flat)
  /\ pc = "call"
  /\ result = <<>>
  /\ request = NoRequest
  /\ k = 0
  /\ status = 0
  /\ log = <<>>

Call ==
  /\ pc = "call"
  /\ \E order \in Orders(Candidates(users_data)) :
       LET o == find_best_times(users_data, order)
       IN  /\ pc' = IF o.kind = "return" THEN "done" ELSE "raised"
           /\ result' = o.value
  /\ UNCHANGED <<users_data, request, k, status, log>>

Next == Call

Spec == Init /\ [][Next]_vars

(***************************************************************************)
(* The /schedule request handler.                                          *)
(***************************************************************************)
\* What ollama.chat gives for one message: it fails (chat = FALSE), or it
\* returns a content that is JSON of the UserInput shape or not (json).
ChatResponse(c, j, a, p) ==
  [chat |-> c, json |-> j, available_slots |-> a, preferred_slots |-> p]

LLMResponses ==
  { ChatResponse(FALSE, FALSE, <<>>, <<>>),
    ChatResponse(TRUE, FALSE, <<>>, <<>>),
    ChatResponse(TRUE, TRUE, <<TimeSlot("Saturday", 9)>>, <<>>),
    ChatResponse(TRUE, TRUE, <<TimeSlot("Monday", 10)>>,
                             <<TimeSlot("Monday", 17)>>),
    ChatResponse(TRUE, TRUE, <<TimeSlot("Monday", 10), TimeSlot("Tuesday", 9)>>,
                             <<TimeSlot("Tuesday", 9)>>),
    ChatResponse(TRUE, TRUE, <<TimeSlot("Tuesday", 9)>>, <<>>),
    ChatResponse(TRUE, TRUE, <<TimeSlot("Monday", 10)>>,
                             <<TimeSlot("Monday", 10)>>) }

\* UserInput.model_validate_json(content)
model_validate_json(resp) ==
  /\ resp.json
  /\ \A n \in 1..Len(resp.available_slots) :
        ValidTimeSlot(resp.available_slots[n])
  /\ \A n \in 1..Len(resp.preferred_slots) :
        ValidTimeSlot(resp.preferred_slots[n])

\* get_user_data(user_text), ollama.chat answering `resp`
get_user_data(resp) ==
  IF ~resp.chat THEN Raise("ResponseError")
  ELSE IF ~model_validate_json(resp) THEN Raise("ValidationError")
  ELSE Return(UserInput(resp.available_slots, resp.preferred_slots))

\* A request body, by what the handler asks of it: what kind of JSON value
\* request.get_json() gives (kind "not_json": it raises), whether the value
\* is truthy, whether 'messages' is in it (a key of an object, an element of
\* an array, a substring of a string), what data['messages'] is in an object
\* ("absent", "not_list", "list") and, for a list, its number n of messages.
Body(t, tr, h, m, n) ==
  [kind |-> t, truthy |-> tr, has_messages |-> h, messages |-> m, n |-> n]

Requests ==
  { Body("not_json", FALSE, FALSE, "absent", 0),
    Body("null", FALSE, FALSE, "absent", 0),
    Body("bool", FALSE, FALSE, "absent", 0),
    Body("bool", TRUE, FALSE, "absent", 0),
    Body("number", FALSE, FALSE, "absent", 0),
    Body("number", TRUE, FALSE, "absent", 0),
    Body("string", FALSE, FALSE, "absent", 0),
    Body("string", TRUE, FALSE, "absent", 0),
    Body("string", TRUE, TRUE, "absent", 0),
    Body("array", FALSE, FALSE, "absent", 0),
    Body("array", TRUE, FALSE, "absent", 0),
    Body("array", TRUE, TRUE, "absent", 0),
    Body("object", FALSE, FALSE, "absent", 0),
    Body("object", TRUE, FALSE, "absent", 0),
    Body("object", TRUE, TRUE, "not_list", 0) } \cup
  { Body("object", TRUE, TRUE, "list", n) : n \in 0..MaxMsgs }

\* The validation of the request, inside the try: the status it answers
\* (400 from its own checks, 500 from `except Exception`), or 0 to go on.
\*   data = request.get_json()                    raises on a body not JSON
\*   if not data or 'messages' not in data: 400   `in` is a TypeError on a
\*                                                number or a boolean
\*   msgs = data['messages']                      a TypeError on a string or
\*                                                an array
\*   if not isinstance(msgs, list): 400
ValidateRequest(data) ==
  IF data.kind = "not_json" THEN 500
  ELSE IF ~data.truthy THEN 400
  ELSE IF data.kind \in {"bool", "number"} THEN 500
  ELSE IF ~data.has_messages THEN 400
  ELSE IF data.kind \in {"string", "array"} THEN 500
  ELSE IF data.messages # "list" THEN 400
  ELSE 0

\* One call the handler made: of get_user_data for message msg, or of
\* find_best_times (msg = 0), and whether it returned.
CallEvent(f, m, r) == [op |-> f, msg |-> m, returned |-> r]

InitRequest ==
  /\ request \in Requests
  /\ pc = "recv"
  /\ users_data = <<>>
  /\ result = <<>>
  /\ k = 0
  /\ status = 0
  /\ log = <<>>

\* The handler up to `users_data = []`: the request is answered 400 or 500
\* with no call made, or the extraction loop starts.
Receive ==
  /\ pc = "recv"
  /\ status' = ValidateRequest(request)
  /\ pc' = IF ValidateRequest(request) = 0 THEN "extract" ELSE "responded"
  /\ UNCHANGED <<users_data, result, request, k, log>>

\* Mutant of Extract: the exception of get_user_data caught inside the loop,
\* the failed message skipped and the loop going on.
Extract_SkipFailed ==
  /\ pc = "extract"
  /\ k < request.n
  /\ \E resp \in LLMResponses :
       LET o == get_user_data(resp)
       IN  /\ log' = Append(log, CallEvent("get_user_data", k + 1,
                                           o.kind = "return"))
           /\ users_data' = IF o.kind = "return"
                            THEN Append(users_data, o.value) ELSE users_data
           /\ k' = k + 1
  /\ UNCHANGED <<pc, status, result, request>>

\* One turn of `for i, m in enumerate(msgs)`: get_user_data(m) and the
\* append, or its exception caught by `except Exception`: 500.
Extract ==
  /\ pc = "extract"
  /\ k < request.n
  /\ \E resp \in LLMResponses :
       LET o == get_user_data(resp)
       IN  /\ log' = Append(log, CallEvent("get_user_data", k + 1,
                                           o.kind = "return"))
           /\ IF o.kind = "return"
              THEN /\ users_data' = Append(users_data, o.value)
                   /\ k' = k + 1
                   /\ UNCHANGED <<pc, status>>
              ELSE /\ pc' = "responded"
                   /\ status' = 500
                   /\ UNCHANGED <<users_data, k>>
  /\ UNCHANGED <<result, request>>

\* results = find_best_times(users_data); 200, or its exception: 500.
Match ==
  /\ pc = "extract"
  /\ k = request.n
  /\ \E order \in Orders(Candidates(users_data)) :
       LET o == find_best_times(users_data, order)
       IN  /\ log' = Append(log, CallEvent("find_best_times", 0,
                                           o.kind = "return"))
           /\ result' = o.value
           /\ status' = IF o.kind = "return" THEN 200 ELSE 500
  /\ pc' = "responded"
  /\ UNCHANGED <<users_data, request, k>>

NextRequest == Receive \/ Extract \/ Match

SpecRequest == InitRequest /\ [][NextRequest]_vars

(***************************************************************************)
(* The properties.  They are stated with definitions of their own, so that *)
(* none of them rests on the operators of the model it is about.           *)
(***************************************************************************)
Finished == pc \in {"done", "raised"}

\* The (day, hour) pairs of a list of slots or of entries
PairsOf(seq) == { <<seq[n].day, seq[n].hour>> : n \in DOMAIN seq }

AllPairs == PairsOf([s \in SlotUniverse |-> s])

\* The mathematical intersection of the users' available slots
MathIntersection(users) ==
  { s \in AllPairs :
      \A u \in 1..Len(users) : s \in PairsOf(users[u].available_slots) }

\* The users of a list in the order perm
Permuted(users, perm) == [n \in 1..Len(users) |-> users[perm[n]]]

\* One order of iteration of a set
SomeOrder(S) == CHOOSE f \in Orders(S) : TRUE

\* The weekday order of the specification
DayRank(d) ==
  CASE d = "Monday" -> 1 [] d = "Tuesday" -> 2 [] d = "Wednesday" -> 3
    [] d = "Thursday" -> 4 [] d = "Friday" -> 5 [] OTHER -> 0

\* e1 comes strictly before e2 in the order (-score, day_rank, hour)
Before(e1, e2) ==
  \/ e1.score > e2.score
  \/ e1.score = e2.score /\ DayRank(e1.day) < DayRank(e2.day)
  \/ e1.score = e2.score /\ e1.day = e2.day /\ e1.hour < e2.hour

\* C1: for a non-empty input, the (day, hour) pairs of the returned list are
\* exactly the slots that are in every participant's available_slots
\* (duplicates in a list collapsed); the inputs range over every order of
\* the participants, and an input whose days are all Monday..Friday returns.
C1_IntersectionCorrect ==
  (Finished /\ Len(users_data) > 0) =>
     /\ pc = "done" => PairsOf(result) = MathIntersection(users_data)
     /\ (\A u \in 1..Len(users_data) :
           \A n \in 1..Len(users_data[u].available_slots) :
              users_data[u].available_slots[n].day \in Days) => pc = "done"

\* C1 happens: two participants or more, one of them listing a slot twice,
\* and a non-empty result that is smaller than the first participant's set.
C1_Witness ==
  /\ pc = "done"
  /\ Len(users_data) >= 2
  /\ result # <<>>
  /\ PairsOf(result) # PairsOf(users_data[1].available_slots)
  /\ \E u \in 1..Len(users_data) :
        Len(users_data[u].available_slots) >
           Cardinality(PairsOf(users_data[u].available_slots))

\* C2: the score of a returned slot is the number of participants of the
\* whole input whose preferred_slots holds that (day, hour) pair, a
\* participant counting once however often the pair occurs in the list.
C2_ScoreIsPreferringCount ==
  pc = "done" =>
     \A n \in 1..Len(result) :
        result[n].score =
           Cardinality({ u \in 1..Len(users_data) :
              <<result[n].day, result[n].hour>> \in
                 PairsOf(users_data[u].preferred_slots) })

\* C2 happens: a returned slot that one participant lists twice among the
\* preferred slots, and that scores 1.
C2_Witness ==
  /\ pc = "done"
  /\ \E n \in 1..Len(result) :
        /\ result[n].score = 1
        /\ \E u \in 1..Len(users_data) :
              \E a, b \in 1..Len(users_data[u].preferred_slots) :
                 /\ a < b
                 /\ users_data[u].preferred_slots[a] =
                       TimeSlot(result[n].day, result[n].hour)
                 /\ users_data[u].preferred_slots[b] =
                       TimeSlot(result[n].day, result[n].hour)

\* C3: the returned list is sorted by (-score, day_rank, hour): of two
\* adjacent entries the earlier has the higher score, or the same score and
\* the earlier weekday, or the same score and weekday and the smaller hour.
C3_SortedByKey ==
  pc = "done" =>
     \A n \in 1..(Len(result) - 1) : Before(result[n], result[n + 1])

\* C3 happens: three entries, the first ahead by its score although its hour
\* is later, the second ahead of the third by its weekday although its hour
\* is later.
C3_Witness ==
  /\ pc = "done"
  /\ Len(result) = 3
  /\ result[1].score > result[2].score
  /\ result[1].hour > result[2].hour
  /\ result[2].score = result[3].score
  /\ DayRank(result[2].day) < DayRank(result[3].day)
  /\ result[2].hour > result[3].hour

\* C4: the empty input, and any input in which some participant has no
\* available slot, returns the empty list and raises nothing.
C4_DegenerateInputIsEmpty ==
  (Finished /\ (\/ Len(users_data) = 0
                \/ \E u \in 1..Len(users_data) :
                      Len(users_data[u].available_slots) = 0)) =>
     (pc = "done" /\ result = <<>>)

\* C4 happens: three participants, the one in the middle without any
\* available slot, the other two sharing a slot.
C4_Witness ==
  /\ pc = "done"
  /\ Len(users_data) = 3
  /\ Len(users_data[2].available_slots) = 0
  /\ PairsOf(users_data[1].available_slots) \cap
        PairsOf(users_data[3].available_slots) # {}

\* C5: no call raises, whatever slots the schedules hold, and every slot
\* common to all participants, in the nominal domain or not, is in the
\* returned list.  (The code raises KeyError when a common slot has a day
\* that day_mapping does not hold.)
C5_NeverRaises ==
  Finished =>
     /\ pc = "done"
     /\ (Len(users_data) > 0 =>
           MathIntersection(users_data) \subseteq PairsOf(result))

\* C6: the call on any permutation of the participants ends the same way
\* and, when it returns, returns the same set of (day, hour) pairs.
C6_PermutationInvariant ==
  Finished =>
     \A perm \in Permutations(1..Len(users_data)) :
        LET users == Permuted(users_data, perm)
            o == find_best_times(users, SomeOrder(Candidates(users)))
        IN  /\ (o.kind = "return") <=> (pc = "done")
            /\ PairsOf(o.value) = PairsOf(result)

\* C6 happens: three participants with non-empty lists and an empty result,
\* the early return firing at the third participant, and at the second for
\* another order of the same participants.
C6_Witness ==
  /\ pc = "done"
  /\ result = <<>>
  /\ Len(users_data) = 3
  /\ \A u \in 1..3 : Len(users_data[u].available_slots) > 0
  /\ common_of(users_data).returned
  /\ common_of(users_data).at = 3
  /\ \E perm \in Permutations(1..Len(users_data)) :
        /\ common_of(Permuted(users_data, perm)).returned
        /\ common_of(Permuted(users_data, perm)).at = 2

\* C7: when two participants, at any two positions, have disjoint available
\* slots, the call returns the empty list.
C7_DisjointIsEmpty ==
  (Finished /\ \E a, b \in 1..Len(users_data) :
                  /\ a # b
                  /\ PairsOf(users_data[a].available_slots) \cap
                        PairsOf(users_data[b].available_slots) = {}) =>
     (pc = "done" /\ result = <<>>)

\* C7 happens: the first and the third of three participants have disjoint,
\* non-empty available slots, and the first two share a slot.
C7_Witness ==
  /\ pc = "done"
  /\ result = <<>>
  /\ Len(users_data) = 3
  /\ PairsOf(users_data[1].available_slots) # {}
  /\ PairsOf(users_data[3].available_slots) # {}
  /\ PairsOf(users_data[1].available_slots) \cap
        PairsOf(users_data[3].available_slots) = {}
  /\ PairsOf(users_data[1].available_slots) \cap
        PairsOf(users_data[2].available_slots) # {}

\* The positions of the log that hold calls of get_user_data
ExtractCalls == { n \in 1..Len(log) : log[n].op = "get_user_data" }

MatchCalls == { n \in 1..Len(log) : log[n].op = "find_best_times" }

FailedCalls == { n \in 1..Len(log) : ~log[n].returned }

\* C8: in one /schedule request the messages are extracted one at a time in
\* input order; find_best_times is called only after get_user_data returned
\* for every message; once an extraction fails no later message is
\* extracted, find_best_times is not called, and the response is a 500
\* without a ranked list.
C8_ExtractAllThenMatch ==
  /\ \A n \in ExtractCalls : log[n].msg = n /\ n <= request.n
  /\ \A n \in MatchCalls :
        /\ n = request.n + 1
        /\ Len(users_data) = request.n
        /\ \A m \in 1..(n - 1) : log[m].op = "get_user_data" /\ log[m].returned
  /\ \A n \in FailedCalls \cap ExtractCalls :
        /\ n = Len(log)
        /\ pc = "responded"
        /\ status = 500
        /\ result = <<>>
  /\ status = 200 => MatchCalls # {}

\* C8 happens: of three messages the second fails to extract; the request
\* has ended, the third message was never extracted.
C8_Witness ==
  /\ pc = "responded"
  /\ request.n = 3
  /\ Len(log) = 2
  /\ log[1].returned
  /\ ~log[2].returned
  /\ status = 500

\* The algorithm of find_best_times without its early return: every
\* participant is intersected, every candidate left is scored, and the
\* entries are sorted.
RECURSIVE IntersectAll(_, _, _)
IntersectAll(rest, j, common_slots) ==
  IF j > Len(rest) THEN common_slots
  ELSE IntersectAll(rest, j + 1,
          common_slots \cap PairsOf(rest[j].available_slots))

NoShortCircuitCandidates(users) ==
  IF Len(users) = 0 THEN {}
  ELSE IntersectAll(users, 2, PairsOf(users[1].available_slots))

NoShortCircuit(users, order) ==
  IF Len(users) = 0 THEN Return(<<>>) ELSE rank_and_sort(users, order)

\* C9: the early return changes nothing: the call ends as the algorithm
\* without the early return ends, with the same list.
C9_ShortCircuitIsOptimization ==
  Finished =>
     \A order \in Orders(NoShortCircuitCandidates(users_data)) :
        NoShortCircuit(users_data, order) =
           [kind |-> IF pc = "done" THEN "return" ELSE "KeyError",
            value |-> result]

\* C9 happens: the early return fires at the second of three participants,
\* whose lists are all non-empty, and the third is never looked at.
C9_Witness ==
  /\ pc = "done"
  /\ Len(users_data) = 3
  /\ \A u \in 1..3 : Len(users_data[u].available_slots) > 0
  /\ common_of(users_data).returned
  /\ common_of(users_data).at = 2

\* C10: the returned list is determined by the input: no two entries have
\* the same (day, hour) pair, no two have the same key (-score, day_rank,
\* hour), and every order of iteration of the candidate set gives this list.
C10_OutputDetermined ==
  pc = "done" =>
     /\ \A a, b \in 1..Len(result) :
           a # b =>
              /\ <<result[a].day, result[a].hour>> #
                    <<result[b].day, result[b].hour>>
              /\ <<-result[a].score, DayRank(result[a].day), result[a].hour>> #
                    <<-result[b].score, DayRank(result[b].day), result[b].hour>>
     /\ \A order \in Orders(Candidates(users_data)) :
           find_best_times(users_data, order) = Return(result)

\* C10 happens: three entries (six orders of iteration), two of them with
\* the same score and weekday.
C10_Witness ==
  /\ pc = "done"
  /\ Len(result) = 3
  /\ Cardinality(Orders(Candidates(users_data))) = 6
  /\ \E a, b \in 1..3 :
        /\ a # b
        /\ result[a].score = result[b].score
        /\ result[a].day = result[b].day

====
